---- MODULE Spec2Model ----
(***************************************************************************)
(* Health analytics inference engine of the wearable backend:              *)
(* MLService (services/ml_service.py) with its two sequence classifiers    *)
(* (services/cnn_activity_model.py, services/lstm_stress_model.py), the    *)
(* metabolic-rate rule of RatingService (services/rating_service.py), the  *)
(* ConnectionManager of routes/websocket.py and the ratings route          *)
(* (routes/ratings.py).                                                    *)
(*                                                                         *)
(* Numbers.  Heart rate, SpO2 and steps are integers.  Temperature is in   *)
(* tenths of a degree (37.5 is 375), acceleration in hundredths (0.5 is    *)
(* 50), probabilities and confidences in percent (0.5 is 50).  A pandas    *)
(* mean or standard deviation is kept as an exact fraction num/den, with   *)
(* den = 0 standing for NaN; every comparison with NaN is false, as in     *)
(* Python.                                                                 *)
(***************************************************************************)
EXTENDS Integers, Sequences, FiniteSets

VARIABLES
    op,        \* the service method called last ("none" before any call)
    vitals,    \* the vitals_history / df argument of that call
    imu,       \* the imu_data argument of that call
    flags,     \* the anomaly flags: the argument of _calculate_risk_score,
               \* or what _detect_anomalies returned inside predict_health
    log,       \* the sub-components the call invoked, in invocation order
    result,    \* the record the call returned, or Raised
    anomaly_model,  \* fitted state of MLService.anomaly_model
    lstm_scaler,    \* fitted state of LSTMStressModel.scaler
    cnn_scaler,     \* fitted state of CNNActivityModel.scaler
    requests,  \* the requests in flight on the routes of the shared service
    args,      \* the scalar arguments of a function called on its own
    active_connections,  \* ConnectionManager.active_connections
    sockets,   \* the websockets: their endpoint's position and their user
    broadcast, \* the broadcast_to_user call in progress
    health_ratings,      \* the rows of the health_ratings table
    rating_requests      \* the GET /ratings/{user_id} requests in flight

\* the state of the websocket routes and of the ratings route
wsVars == <<active_connections, sockets, broadcast>>
ratingVars == <<health_ratings, rating_requests>>
otherVars == <<args, wsVars, ratingVars>>

vars == <<op, vitals, imu, flags, log, result,
         anomaly_model, lstm_scaler, cnn_scaler, requests, otherVars>>

----------------------------------------------------------------------------
(* Bounds of the model *)

\* short histories have 0..MaxShort samples
MaxShort == 2
\* long histories have MinSamples-1 .. MinSamples+MaxExtra samples
MaxExtra == 1

(* Program constants *)
MinStressSamples == 10
MinActivitySamples == 10
window_size == 50
sequence_length == 60

----------------------------------------------------------------------------
(* Samples: a Python dict whose keys may be missing and whose values may   *)
(* be None.                                                                *)

Absent == [k |-> "absent", v |-> 0]      \* the key is not in the dict
Null == [k |-> "null", v |-> 0]          \* the key is there, the value is None
Val(x) == [k |-> "val", v |-> x]

FieldOf(S) == {Absent, Null} \cup {Val(x) : x \in S}

HRVals == {55, 70, 110}
SpO2Vals == {90, 98}
TempVals == {355, 365, 380}
StepsVals == {100, 6000}

Lengths == (0..MaxShort) \cup ((MinStressSamples - 1)..(MinStressSamples + MaxExtra))

\* a history of n samples: the first sample's heart rate is h1, the others'
\* h2; SpO2, temperature and steps are the same in every sample
VitalsHistory(n, h1, h2, s, t, st) ==
    [i \in 1..n |-> [heart_rate |-> IF i = 1 THEN h1 ELSE h2,
                     spo2 |-> s, temperature |-> t, steps |-> st]]

VitalsInputs ==
    {VitalsHistory(n, h1, h2, s, t, st) :
        n \in Lengths, h1 \in FieldOf(HRVals), h2 \in FieldOf(HRVals),
        s \in FieldOf(SpO2Vals), t \in FieldOf(TempVals),
        st \in {Absent} \cup {Val(x) : x \in StepsVals}}
    \cup {VitalsHistory(n, Val(70), Val(70), Val(98), Val(365), Null) :
              n \in Lengths}

----------------------------------------------------------------------------
(* pandas: DataFrame(list of dicts), Series.mean/std/sum                    *)

Range(q) == {q[i] : i \in 1..Len(q)}

\* 'f' in df.columns: some dict has the key
HasColumn(h, f) == \E i \in 1..Len(h) : h[i][f].k # "absent"

\* df.empty: no rows or no columns
DfEmpty(h) ==
    \/ Len(h) = 0
    \/ \A f \in {"heart_rate", "spo2", "temperature", "steps"} : ~HasColumn(h, f)

RECURSIVE SumVals(_, _, _)
SumVals(h, f, i) ==
    IF i = 0 THEN 0
    ELSE (IF h[i][f].k = "val" THEN h[i][f].v ELSE 0) + SumVals(h, f, i - 1)

RECURSIVE SumSquares(_, _, _)
SumSquares(h, f, i) ==
    IF i = 0 THEN 0
    ELSE (IF h[i][f].k = "val" THEN h[i][f].v * h[i][f].v ELSE 0)
         + SumSquares(h, f, i - 1)

CountVals(h, f) == Cardinality({i \in 1..Len(h) : h[i][f].k = "val"})

Num(x) == [num |-> x, den |-> 1]

\* Series.mean(): over the present values, NaN when there is none
Mean(h, f) == [num |-> SumVals(h, f, Len(h)), den |-> CountVals(h, f)]

\* Series.std() squared (ddof = 1): NaN with fewer than two present values
Variance(h, f) ==
    LET n == CountVals(h, f)
        s == SumVals(h, f, Len(h))
    IN  [num |-> n * SumSquares(h, f, Len(h)) - s * s, den |-> n * (n - 1)]

\* Series.sum(): 0 when nothing is present
Sum(h, f) == SumVals(h, f, Len(h))

\* float comparisons q > c and q < c; false on NaN
GT(q, c) == q.den > 0 /\ q.num > c * q.den
LT(q, c) == q.den > 0 /\ q.num < c * q.den
\* std > c and std < c for c >= 0, on the variance
StdGT(v, c) == GT(v, c * c)
StdLT(v, c) == LT(v, c * c)

----------------------------------------------------------------------------
(* MLService._detect_anomalies                                             *)

Raised == [raised |-> TRUE]
IsRaised(r) == "raised" \in DOMAIN r

AnomalyFeatures == {"heart_rate", "spo2", "temperature"}

\* X = df[available].fillna(df[available].mean()) still holds NaN: a column
\* none of whose cells has a value has mean NaN and is filled with NaN
XHasNaN(h) == \E f \in AnomalyFeatures : HasColumn(h, f) /\ CountVals(h, f) = 0

\* what fit_predict(X) == -1 can be for n rows: no row flagged, the first
\* row flagged, the last row flagged
FlagPatterns(n) ==
    {[i \in 1..n |-> FALSE]} \cup
    (IF n = 0 THEN {}
     ELSE {[i \in 1..n |-> i = 1], [i \in 1..n |-> i = n]})

\* The outcomes of _detect_anomalies(df): [raised |-> FALSE, flags |-> ..],
\* or [raised |-> TRUE] when IsolationForest rejects X.  IsolationForest
\* validates X with check_array, which raises ValueError on NaN in the
\* sklearn releases that do not let the forest take missing values; both
\* are outcomes a deployment can produce.
_detect_anomalies(h) ==
    IF DfEmpty(h) \/ ~HasColumn(h, "heart_rate")
    THEN {[raised |-> FALSE, flags |-> <<>>]}
    ELSE {[raised |-> FALSE, flags |-> fl] : fl \in FlagPatterns(Len(h))}
         \cup (IF XHasNaN(h) THEN {[raised |-> TRUE, flags |-> <<>>]} ELSE {})

\* any(anomalies)
AnyTrue(fl) == \E i \in 1..Len(fl) : fl[i]

----------------------------------------------------------------------------
(* MLService._calculate_risk_score                                         *)

Min(a, b) == IF a < b THEN a ELSE b
Max(a, b) == IF a > b THEN a ELSE b

\* lines 100-103: the heart-rate rule
HRPenalty(h) ==
    LET hr == Mean(h, "heart_rate")
    IN  IF HasColumn(h, "heart_rate") /\ (GT(hr, 100) \/ LT(hr, 60))
        THEN 10 ELSE 0

\* lines 100, 104-105: the anomaly rule, nested in the heart-rate block
AnomalyPenalty(h, fl) ==
    IF HasColumn(h, "heart_rate") /\ AnyTrue(fl) THEN 15 ELSE 0

\* the SpO2 rule with the sign of its penalty flipped
SpO2PenaltySubtracted(h) ==
    IF HasColumn(h, "spo2") /\ LT(Mean(h, "spo2"), 95) THEN 0 - 20 ELSE 0

\* lines 108-111
SpO2Penalty(h) ==
    IF HasColumn(h, "spo2") /\ LT(Mean(h, "spo2"), 95) THEN 20 ELSE 0

\* lines 114-117
TempPenalty(h) ==
    LET temp == Mean(h, "temperature")
    IN  IF HasColumn(h, "temperature") /\ (GT(temp, 375) \/ LT(temp, 360))
        THEN 10 ELSE 0

\* the score returned unclamped
ClampMissing(risk) == risk

\* line 119: min(100.0, max(0.0, risk))
Clamp(risk) == Min(100, Max(0, risk))

\* a scorer that answers from the state the service holds: the top score
\* once the stress model's scaler has been fitted by an earlier call
RiskScoreOfHeldState(h, fl) ==
    IF lstm_scaler.fit = "call" THEN 100
    ELSE IF DfEmpty(h) THEN 50
    ELSE Clamp(50 + HRPenalty(h) + AnomalyPenalty(h, fl)
                  + SpO2Penalty(h) + TempPenalty(h))

\* lines 92-119: self is not read
_calculate_risk_score(h, fl) ==
    IF DfEmpty(h) THEN 50
    ELSE Clamp(50 + HRPenalty(h) + AnomalyPenalty(h, fl)
                  + SpO2Penalty(h) + TempPenalty(h))

----------------------------------------------------------------------------
(* MLService: the rule-based predictors                                    *)

_predict_sleep_quality(h) ==
    IF DfEmpty(h) THEN 75
    ELSE IF HasColumn(h, "heart_rate")
         THEN LET hr_std == Variance(h, "heart_rate")
              IN  IF StdLT(hr_std, 5) THEN 90
                  ELSE IF StdLT(hr_std, 10) THEN 75
                  ELSE 60
         ELSE 75

_predict_stress_level(h) ==
    IF DfEmpty(h) \/ ~HasColumn(h, "heart_rate") THEN "moderate"
    ELSE LET hr_mean == Mean(h, "heart_rate")
             hr_std == Variance(h, "heart_rate")
         IN  IF GT(hr_mean, 90) \/ StdGT(hr_std, 15) THEN "high"
             ELSE IF GT(hr_mean, 75) \/ StdGT(hr_std, 10) THEN "moderate"
             ELSE "low"

\* the heart-rate tests not strict
CardiovascularRiskNonStrict(h) ==
    IF DfEmpty(h) \/ ~HasColumn(h, "heart_rate") THEN "low"
    ELSE LET hr_mean == Mean(h, "heart_rate")
         IN  IF ~LT(hr_mean, 100) /\ hr_mean.den > 0 THEN "high"
             ELSE IF ~LT(hr_mean, 85) /\ hr_mean.den > 0 THEN "moderate"
             ELSE "low"

\* lines 269-281
_predict_cardiovascular_risk(h) ==
    IF DfEmpty(h) \/ ~HasColumn(h, "heart_rate") THEN "low"
    ELSE LET hr_mean == Mean(h, "heart_rate")
         IN  IF GT(hr_mean, 100) THEN "high"
             ELSE IF GT(hr_mean, 85) THEN "moderate"
             ELSE "low"

\* the advisories with the sleep test an elif of the risk test
AdvisoriesElif(risk_score, sleep_quality, stress_level, h) ==
    LET r1 == IF risk_score > 70
              THEN <<"Consider consulting a healthcare professional">>
              ELSE <<>>
        r2 == IF risk_score <= 70 /\ sleep_quality < 70
              THEN <<"Improve sleep hygiene - aim for 7-9 hours of sleep">>
              ELSE <<>>
        r3 == IF stress_level = "high"
              THEN <<"Practice stress-reduction techniques (meditation, deep breathing)">>
              ELSE <<>>
        r4 == IF HasColumn(h, "steps") /\ Sum(h, "steps") < 5000
              THEN <<"Increase daily activity - aim for at least 10,000 steps">>
              ELSE <<>>
        r5 == IF HasColumn(h, "spo2") /\ LT(Mean(h, "spo2"), 95)
              THEN <<"Ensure adequate oxygen intake - consider breathing exercises">>
              ELSE <<>>
        r6 == IF HasColumn(h, "temperature") /\ GT(Mean(h, "temperature"), 375)
              THEN <<"Monitor temperature - consider rest and hydration">>
              ELSE <<>>
    IN  r1 \o r2 \o r3 \o r4 \o r5 \o r6

\* lines 291-311: the advisories appended, in the order of the tests
Advisories(risk_score, sleep_quality, stress_level, h) ==
    LET r1 == IF risk_score > 70
              THEN <<"Consider consulting a healthcare professional">>
              ELSE <<>>
        r2 == IF sleep_quality < 70
              THEN <<"Improve sleep hygiene - aim for 7-9 hours of sleep">>
              ELSE <<>>
        r3 == IF stress_level = "high"
              THEN <<"Practice stress-reduction techniques (meditation, deep breathing)">>
              ELSE <<>>
        r4 == IF HasColumn(h, "steps") /\ Sum(h, "steps") < 5000
              THEN <<"Increase daily activity - aim for at least 10,000 steps">>
              ELSE <<>>
        r5 == IF HasColumn(h, "spo2") /\ LT(Mean(h, "spo2"), 95)
              THEN <<"Ensure adequate oxygen intake - consider breathing exercises">>
              ELSE <<>>
        r6 == IF HasColumn(h, "temperature") /\ GT(Mean(h, "temperature"), 375)
              THEN <<"Monitor temperature - consider rest and hydration">>
              ELSE <<>>
    IN  r1 \o r2 \o r3 \o r4 \o r5 \o r6

\* the list returned as built, without the neutral entry
NeutralMissing(recommendations) == recommendations

\* lines 313-316: the neutral entry of a list that stayed empty
NeutralIfEmpty(recommendations) ==
    IF recommendations = <<>>
    THEN <<"Maintain current healthy lifestyle">>
    ELSE recommendations

_generate_recommendations(risk_score, sleep_quality, stress_level, h) ==
    NeutralIfEmpty(Advisories(risk_score, sleep_quality, stress_level, h))

_default_predictions ==
    [risk_score |-> 50,
     predictions |-> [cardiovascular_risk |-> "low",
                      sleep_quality |-> 75,
                      stress_level |-> "moderate"],
     recommendations |-> <<"Collect more data for accurate predictions">>]

----------------------------------------------------------------------------
(* LSTMStressModel and MLService._predict_stress_level_lstm                *)

\* _calculate_mean_values: np.mean over d.get(key, default) raises TypeError
\* when a heart_rate, spo2 or temperature key is there with value None
\* (accel_x and accel_y are guarded by "or 0.0")
MeanValuesRaises(h) ==
    /\ Len(h) > 0
    /\ \E i \in 1..Len(h) : \E f \in {"heart_rate", "spo2", "temperature"} :
          h[i][f].k = "null"

\* prepare_sequences raises exactly when it pads and the padding sample's
\* means raise
PrepareSequencesRaises(h) == Len(h) < sequence_length /\ MeanValuesRaises(h)

\* a point of the history given to prepare_sequences
SequencePoint(hr, s, t, ax, ay) ==
    [heart_rate |-> hr, spo2 |-> s, temperature |-> t,
     accel_x |-> ax, accel_y |-> ay]

\* a number of the window: the value num/den, or None
Entry(x) == [k |-> "val", num |-> x, den |-> 1]

NoneEntry == [k |-> "null", num |-> 0, den |-> 1]

\* point.get(f, default): the default stands in for a key that is not
\* there; a key that is there with None gives None
GetOrDefault(point, f, default) ==
    IF point[f].k = "absent" THEN Entry(default)
    ELSE IF point[f].k = "null" THEN NoneEntry
    ELSE Entry(point[f].v)

\* d.get(f, default) where it is a number (a None raises in np.mean before
\* the sum is used), and d.get(f, 0.0) or 0.0
MeanTerm(point, f, default) ==
    IF point[f].k = "val" THEN point[f].v ELSE default

RECURSIVE SumTerms(_, _, _, _)
SumTerms(h, f, default, n) ==
    IF n = 0 THEN 0
    ELSE MeanTerm(h[n], f, default) + SumTerms(h, f, default, n - 1)

\* np.mean over the points of a non-empty history without None
NpMean(h, f, default) ==
    [k |-> "val", num |-> SumTerms(h, f, default, Len(h)), den |-> Len(h)]

\* lines 87-98: the padding sample (temperatures in tenths of a degree)
_calculate_mean_values(h) ==
    IF Len(h) = 0
    THEN <<Entry(70), Entry(98), Entry(365), Entry(0), Entry(0)>>
    ELSE <<NpMean(h, "heart_rate", 70), NpMean(h, "spo2", 98),
           NpMean(h, "temperature", 365),
           NpMean(h, "accel_x", 0), NpMean(h, "accel_y", 0)>>

\* lines 77-83: the 5-tuple of a point of the history
FeaturesOf(point) ==
    <<GetOrDefault(point, "heart_rate", 70), GetOrDefault(point, "spo2", 98),
      GetOrDefault(point, "temperature", 365),
      Entry(MeanTerm(point, "accel_x", 0)), Entry(MeanTerm(point, "accel_y", 0))>>

\* lines 66-85: the window of sequence_length 5-tuples, or the exception of
\* the padding sample's means
prepare_sequences(h) ==
    IF PrepareSequencesRaises(h) THEN Raised
    ELSE IF Len(h) < sequence_length
    THEN [sequences |->
            [i \in 1..(sequence_length - Len(h)) |-> _calculate_mean_values(h)]
            \o [i \in 1..Len(h) |-> FeaturesOf(h[i])]]
    ELSE [sequences |->
            [i \in 1..sequence_length |->
                FeaturesOf(h[Len(h) - sequence_length + i])]]

\* the histories prepare_sequences is called with: the first point varies,
\* the others are complete
SequenceLengths == {0, 1, MaxShort, sequence_length}

SequencePoints ==
    {SequencePoint(hr, s, Val(365), ax, Absent) :
        hr \in FieldOf({55}), s \in {Absent, Val(98)}, ax \in FieldOf({3})}

SequenceInputs ==
    {[i \in 1..n |-> IF i = 1 THEN p
                     ELSE SequencePoint(Val(70), Val(98), Val(365), Val(1), Val(2))] :
        n \in SequenceLengths, p \in SequencePoints}

\* LSTMStressModel.predict: a class of the untrained or loaded network, or
\* an exception from scaling or inference
LstmPredictOutcomes == {"low", "moderate", "high", "raise"}

\* lines 239-243 and 251-254: the rule-based fallback
StressFallback(h) ==
    IF Len(h) > 0 THEN [raised |-> FALSE, level |-> _predict_stress_level(h),
                        log |-> <<"_predict_stress_level">>]
    ELSE [raised |-> FALSE, level |-> "moderate", log |-> <<>>]

\* the exception let through
StressOnErrorPropagates(h) == [raised |-> TRUE, level |-> "none", log |-> <<>>]

\* lines 249-254: except Exception: fall back
StressOnError(h) == StressFallback(h)

\* line 238: not vitals_history or len(vitals_history) < 10
StressTooShort(h) == Len(h) = 0 \/ Len(h) < MinStressSamples

\* the outcomes [raised, level, log] of _predict_stress_level_lstm; a log
\* entry ending in "!" is a call that raised
_predict_stress_level_lstm(h) ==
    IF StressTooShort(h) THEN {StressFallback(h)}
    ELSE IF PrepareSequencesRaises(h)
    THEN {LET f == StressOnError(h)
          IN  [f EXCEPT !.log = <<"prepare_sequences!">> \o @]}
    ELSE {IF o = "raise"
          THEN LET f == StressOnError(h)
               IN  [f EXCEPT !.log = <<"prepare_sequences", "lstm.predict!">> \o @]
          ELSE [raised |-> FALSE, level |-> o,
                log |-> <<"prepare_sequences", "lstm.predict">>]
          : o \in LstmPredictOutcomes}

----------------------------------------------------------------------------
(* MLService.predict_health                                                *)

\* a guard that never short-circuits
HistoryEmptyNever(h) == FALSE

\* line 36: not vitals_history
HistoryEmpty(h) == Len(h) = 0

\* lines 42-51: the steps called up to the stress step, in call order
StepsToStress ==
    <<"_detect_anomalies", "_calculate_risk_score",
      "_predict_sleep_quality", "_predict_stress_level_lstm">>

\* steps after the stress step that score a second time
StepsAfterStressRescored ==
    <<"_predict_cardiovascular_risk", "_calculate_risk_score",
      "_generate_recommendations">>

\* lines 54-59: the steps called after the stress step, in call order
StepsAfterStress ==
    <<"_predict_cardiovascular_risk", "_generate_recommendations">>

\* the outcomes [result, flags, log] of predict_health(user_id, h)
predict_health(h) ==
    IF HistoryEmpty(h)
    THEN {[result |-> _default_predictions, flags |-> <<>>,
           log |-> <<"_default_predictions">>]}
    ELSE UNION {
      IF a.raised
      THEN {[result |-> Raised, flags |-> <<>>, log |-> <<"_detect_anomalies!">>]}
      ELSE
        LET risk == _calculate_risk_score(h, a.flags)
            sleep == _predict_sleep_quality(h)
            cardio == _predict_cardiovascular_risk(h)
        IN  {IF s.raised
             THEN [result |-> Raised, flags |-> a.flags,
                   log |-> StepsToStress \o s.log]
             ELSE [result |->
                     [risk_score |-> risk,
                      predictions |-> [cardiovascular_risk |-> cardio,
                                       sleep_quality |-> sleep,
                                       stress_level |-> s.level],
                      recommendations |->
                          _generate_recommendations(risk, sleep, s.level, h)],
                   flags |-> a.flags,
                   log |-> StepsToStress \o s.log \o StepsAfterStress]
             : s \in _predict_stress_level_lstm(h)}
      : a \in _detect_anomalies(h)}

----------------------------------------------------------------------------
(* IMU samples                                                             *)

ImuSample(ax, ay, az) ==
    [accel_x |-> ax, accel_y |-> ay, accel_z |-> az,
     gyro_x |-> Absent, gyro_y |-> Absent, gyro_z |-> Absent]

\* {} : a dict with none of the keys
EmptyDict == ImuSample(Absent, Absent, Absent)

\* a list element that is not a dict (it has no .get)
NotADict == [notdict |-> TRUE]
IsDict(p) == "accel_x" \in DOMAIN p

\* magnitudes 0.1, 0.5 and 0.51 along one axis
MagVals == {10, 50, 51}

ImuSamples ==
    {EmptyDict,
     ImuSample(Val(0), Absent, Absent),
     ImuSample(Null, Val(0), Val(51))}
    \cup {ImuSample(Val(0), Val(0), Val(z)) : z \in MagVals}

ImuHistory(n, a, b) == [i \in 1..n |-> IF i = 1 THEN a ELSE b]

ActivityLengths ==
    (0..MaxShort) \cup ((MinActivitySamples - 1)..(MinActivitySamples + MaxExtra))

ImuInputs ==
    {ImuHistory(n, a, b) : n \in ActivityLengths, a \in ImuSamples, b \in ImuSamples}

\* what predict_activity is given: lists of dicts, and lists whose first
\* element is not a dict
ActivityInputs ==
    ImuInputs \cup
    {ImuHistory(n, NotADict, b) : n \in ActivityLengths, b \in ImuSamples}

\* a sample with rotation rates, one of them null
GyroSample ==
    [accel_x |-> Val(10), accel_y |-> Val(-20), accel_z |-> Val(98),
     gyro_x |-> Val(3), gyro_y |-> Null, gyro_z |-> Val(-2)]

WindowLengths == ActivityLengths \cup {window_size, window_size + 1}

\* what prepare_windows is given when called on its own: lists of dicts,
\* shorter than the window, as long, and longer
WindowInputs ==
    {ImuHistory(n, a, b) : n \in WindowLengths,
                           a \in ImuSamples \cup {GyroSample},
                           b \in ImuSamples \cup {GyroSample}}

----------------------------------------------------------------------------
(* CNNActivityModel                                                        *)

activity_classes == <<"stationary", "walking", "running", "cycling">>

\* point.get(f, 0.0) or 0.0
GetOrZero(point, f) == IF point[f].k = "val" THEN point[f].v ELSE 0

\* the padding made of empty dicts
PaddedImuZeros(d) ==
    IF Len(d) < window_size
    THEN [i \in 1..(window_size - Len(d)) |-> EmptyDict] \o d
    ELSE d

\* lines 75-79: the list the window is cut from
PaddedImu(d) ==
    IF Len(d) < window_size
    THEN LET last_value == IF Len(d) > 0 THEN d[Len(d)] ELSE EmptyDict
         IN  [i \in 1..(window_size - Len(d)) |-> last_value] \o d
    ELSE d

\* imu_data[-window_size:]
LastWindow(d) == SubSeq(d, Len(d) - window_size + 1, Len(d))

\* point.get raises AttributeError on a point that is not a dict
PrepareWindowsRaises(d) ==
    LET w == LastWindow(PaddedImu(d))
    IN  \E i \in 1..Len(w) : ~IsDict(w[i])

\* the window_size x 6 window (when it does not raise)
prepare_windows(d) ==
    LET w == LastWindow(PaddedImu(d))
    IN  [i \in 1..Len(w) |->
            <<GetOrZero(w[i], "accel_x"), GetOrZero(w[i], "accel_y"),
              GetOrZero(w[i], "accel_z"), GetOrZero(w[i], "gyro_x"),
              GetOrZero(w[i], "gyro_y"), GetOrZero(w[i], "gyro_z")>>]

\* the softmax outputs model.predict can give, in percent
SoftmaxOutputs ==
    {<<100, 0, 0, 0>>, <<25, 25, 25, 25>>, <<10, 60, 20, 10>>, <<5, 5, 45, 45>>}

\* np.argmax: the first index of the maximum
ArgMax(p) ==
    CHOOSE i \in 1..Len(p) :
        /\ \A j \in 1..Len(p) : p[j] <= p[i]
        /\ \A j \in 1..(i - 1) : p[j] < p[i]

\* lines 113-124: the record built from the network's output
ActivityRecord(prediction) ==
    LET predicted_class_idx == ArgMax(prediction)
    IN  [activity |-> activity_classes[predicted_class_idx],
         confidence |-> prediction[predicted_class_idx],
         probabilities |->
             [c \in {activity_classes[i] : i \in 1..Len(activity_classes)} |->
                 prediction[CHOOSE i \in 1..Len(activity_classes) :
                                activity_classes[i] = c]]]

\* CNNActivityModel.predict: a record, or "raise" when scaling or inference
\* raises (unusable parameters, a window the scaler rejects)
CnnPredictOutcomes ==
    {[raised |-> FALSE, record |-> ActivityRecord(p)] : p \in SoftmaxOutputs}
    \cup {[raised |-> TRUE, record |-> Raised]}

----------------------------------------------------------------------------
(* MLService.predict_activity                                              *)

\* the default of lines 259 and 267
ActivityDefault == [activity |-> "stationary", confidence |-> 50]

\* the guard one sample too low
ActivityTooShortOffByOne(d) == Len(d) = 0 \/ Len(d) < MinActivitySamples - 1

\* line 258: not imu_data or len(imu_data) < 10
ActivityTooShort(d) == Len(d) = 0 \/ Len(d) < MinActivitySamples

\* the exception let through
ActivityOnErrorPropagates == Raised

\* lines 265-267: except Exception: the default
ActivityOnError == ActivityDefault

\* the outcomes [result, log] of predict_activity(imu_data)
predict_activity(d) ==
    IF ActivityTooShort(d) THEN {[result |-> ActivityDefault, log |-> <<>>]}
    ELSE IF PrepareWindowsRaises(d)
    THEN {[result |-> ActivityOnError, log |-> <<"prepare_windows!">>]}
    ELSE {IF o.raised
          THEN [result |-> ActivityOnError,
                log |-> <<"prepare_windows", "cnn.predict!">>]
          ELSE [result |-> o.record, log |-> <<"prepare_windows", "cnn.predict">>]
          : o \in CnnPredictOutcomes}

----------------------------------------------------------------------------
(* MLService.predict_sleep_stages                                          *)

\* the integer square root; the magnitudes of the model are exact squares
ISqrt(n, bound) ==
    CHOOSE r \in 0..bound : r * r <= n /\ (r + 1) * (r + 1) > n

Abs(x) == IF x < 0 THEN -x ELSE x

\* a row of sqrt(accel_x**2 + accel_y**2 + accel_z**2): NaN unless the
\* three cells have values
RowHasMagnitude(p) ==
    p.accel_x.k = "val" /\ p.accel_y.k = "val" /\ p.accel_z.k = "val"

RowMagnitude(p) ==
    LET x == p.accel_x.v
        y == p.accel_y.v
        z == p.accel_z.v
    IN  ISqrt(x * x + y * y + z * z, Abs(x) + Abs(y) + Abs(z))

RECURSIVE SumMagnitudes(_, _)
SumMagnitudes(d, i) ==
    IF i = 0 THEN 0
    ELSE (IF RowHasMagnitude(d[i]) THEN RowMagnitude(d[i]) ELSE 0)
         + SumMagnitudes(d, i - 1)

\* lines 165-169: the mean over the rows that have a magnitude
Movement(d) ==
    [num |-> SumMagnitudes(d, Len(d)),
     den |-> Cardinality({i \in 1..Len(d) : RowHasMagnitude(d[i])})]

\* df_imu['accel_y'] or df_imu['accel_z'] raises KeyError: accel_x is a
\* column and one of the other two is not
MovementKeyError(d) ==
    /\ HasColumn(d, "accel_x")
    /\ ~(HasColumn(d, "accel_y") /\ HasColumn(d, "accel_z"))

\* an acceleration column none of whose cells has a value is an object
\* column of None; its square is an object column, and np.sqrt of an object
\* column raises TypeError where numpy has no object loop for it
MovementObjectColumn(d) ==
    \E f \in {"accel_x", "accel_y", "accel_z"} :
        HasColumn(d, f) /\ \A i \in 1..Len(d) : d[i][f].k # "val"

\* the rules with the motion comparison not strict
SleepRulesNonStrict(hr_mean, hr_var, movement) ==
    IF ~LT(movement, 50) /\ movement.den > 0
    THEN [wake |-> 70, light |-> 20, deep |-> 5, rem |-> 5,
          dominant_stage |-> "wake"]
    ELSE IF StdLT(hr_var, 3) /\ LT(hr_mean, 65)
    THEN [wake |-> 5, light |-> 10, deep |-> 70, rem |-> 15,
          dominant_stage |-> "deep"]
    ELSE IF StdLT(hr_var, 5) /\ GT(hr_mean, 60) /\ LT(hr_mean, 75)
    THEN [wake |-> 10, light |-> 20, deep |-> 20, rem |-> 50,
          dominant_stage |-> "rem"]
    ELSE [wake |-> 15, light |-> 50, deep |-> 20, rem |-> 15,
          dominant_stage |-> "light"]

\* lines 196-211: the ordered rules on (hr_mean, hr_std, movement)
SleepRules(hr_mean, hr_var, movement) ==
    IF GT(movement, 50)
    THEN [wake |-> 70, light |-> 20, deep |-> 5, rem |-> 5,
          dominant_stage |-> "wake"]
    ELSE IF StdLT(hr_var, 3) /\ LT(hr_mean, 65)
    THEN [wake |-> 5, light |-> 10, deep |-> 70, rem |-> 15,
          dominant_stage |-> "deep"]
    ELSE IF StdLT(hr_var, 5) /\ GT(hr_mean, 60) /\ LT(hr_mean, 75)
    THEN [wake |-> 10, light |-> 20, deep |-> 20, rem |-> 50,
          dominant_stage |-> "rem"]
    ELSE [wake |-> 15, light |-> 50, deep |-> 20, rem |-> 15,
          dominant_stage |-> "light"]

\* the default with the later of its two largest stages named
SleepDefaultDeep ==
    [wake |-> 20, light |-> 30, deep |-> 30, rem |-> 20,
     dominant_stage |-> "deep"]

\* lines 141-147: the neutral default
SleepDefault ==
    [wake |-> 20, light |-> 30, deep |-> 30, rem |-> 20,
     dominant_stage |-> "light"]

\* the guard taken only when both lists are empty
SleepInputsEmptyBoth(h, d) == Len(h) = 0 /\ Len(d) = 0

\* line 140: not vitals_history or not imu_data
SleepInputsEmpty(h, d) == Len(h) = 0 \/ Len(d) = 0

\* the outcomes (records, or Raised) of predict_sleep_stages(h, d)
predict_sleep_stages(h, d) ==
    IF SleepInputsEmpty(h, d) THEN {SleepDefault}
    ELSE
      LET hasHR == HasColumn(h, "heart_rate")
          hr_mean == IF hasHR THEN Mean(h, "heart_rate") ELSE Num(70)
          hr_var == IF hasHR THEN Variance(h, "heart_rate") ELSE Num(25)
      IN  IF ~HasColumn(d, "accel_x")
          THEN {SleepRules(hr_mean, hr_var, Num(10))}
          ELSE IF MovementKeyError(d) THEN {Raised}
          ELSE {SleepRules(hr_mean, hr_var, Movement(d))}
               \cup (IF MovementObjectColumn(d) THEN {Raised} ELSE {})

\* the vitals histories given to predict_sleep_stages
SleepVitalsInputs ==
    {VitalsHistory(n, h1, h2, s, Absent, Absent) :
        n \in Lengths, h1 \in FieldOf(HRVals), h2 \in FieldOf(HRVals),
        s \in {Absent, Val(98)}}

SleepImuInputs ==
    {ImuHistory(n, a, b) : n \in 0..MaxShort, a \in ImuSamples, b \in ImuSamples}

----------------------------------------------------------------------------
(* RatingService._determine_metabolic_rate.  The arguments are the columns *)
(* of the aggregate row: Val(x), or Null where SQL gives NULL (no value to *)
(* aggregate).  Temperatures are in tenths of a degree.                    *)

\* lines 114-126; "raise" is the TypeError of an ordering comparison with
\* None, which `and` reaches only when the tests before it are true
_determine_metabolic_rate(avg_hr, avg_temp, total_steps) ==
    IF avg_hr.k = "null" \/ avg_temp.k = "null" THEN "normal"
    ELSE IF avg_hr.v > 85 /\ avg_temp.v > 370
    THEN (IF total_steps.k = "null" THEN "raise"
          ELSE IF total_steps.v > 8000 THEN "high" ELSE "normal")
    ELSE IF avg_hr.v < 60 /\ avg_temp.v < 365
    THEN (IF total_steps.k = "null" THEN "raise"
          ELSE IF total_steps.v < 3000 THEN "low" ELSE "normal")
    ELSE "normal"

AvgHRVals == {50, 60, 85, 90}
AvgTempVals == {360, 365, 370, 375}
TotalStepsVals == {0, 2999, 3000, 8000, 8001}

\* Val(x) or Null
Nullable(S) == {Null} \cup {Val(x) : x \in S}

----------------------------------------------------------------------------
(* CNNActivityModel.__init__ and LSTMStressModel.__init__: the model and   *)
(* the scaler after _load_or_create_model, for each state of the two files *)
(* ("absent", "ok", or "corrupt": there, but loading it raises).           *)

FileStates == {"absent", "ok", "corrupt"}

ModelClasses == {"CNNActivityModel", "LSTMStressModel"}

\* _create_model: a compiled, untrained network and StandardScaler()
CreateModel == [model |-> "fresh", scaler |-> "fresh"]

\* the try block: load_model, then joblib.load; [raised, model, scaler] with
\* what was assigned before an exception
TryLoad(model_file, scaler_file) ==
    IF model_file # "ok"
    THEN [raised |-> TRUE, model |-> "None", scaler |-> "None"]
    ELSE IF scaler_file # "ok"
    THEN [raised |-> TRUE, model |-> "loaded", scaler |-> "None"]
    ELSE [raised |-> FALSE, model |-> "loaded", scaler |-> "loaded"]

\* an except branch that keeps what was loaded
OnLoadErrorKeep(loaded) == [model |-> loaded.model, scaler |-> loaded.scaler]

\* except Exception: self._create_model()
OnLoadError(loaded) == CreateModel

\* lines 33-44 (CNN) and 30-41 (LSTM), after model = None and scaler = None
_load_or_create_model(model_file, scaler_file) ==
    IF model_file # "absent" /\ scaler_file # "absent"
    THEN LET loaded == TryLoad(model_file, scaler_file)
         IN  IF loaded.raised THEN OnLoadError(loaded)
             ELSE [model |-> loaded.model, scaler |-> loaded.scaler]
    ELSE CreateModel

----------------------------------------------------------------------------
(* The fitted state the service holds.  MLService.anomaly_model is an      *)
(* IsolationForest, the scaler of each sequence model a StandardScaler;    *)
(* each is as constructed, or fitted on the data of a call.                *)

Unfitted == [fit |-> "none", on |-> <<>>]

FittedOn(x) == [fit |-> "call", on |-> x]

\* a fit that keeps the statistics of an earlier call
ScalerFitOnce(cur, x) == IF cur.fit = "call" THEN cur ELSE FittedOn(x)

\* StandardScaler.fit_transform(x): fit resets the scaler and estimates its
\* statistics from x alone
ScalerFit(cur, x) == FittedOn(x)

\* a fit that keeps the forest of an earlier call
AnomalyFitWarm(cur, x) == IF cur.fit = "call" THEN cur ELSE FittedOn(x)

\* IsolationForest.fit_predict(X): the forest is grown anew from X, with
\* random_state = 42
AnomalyFit(cur, x) == FittedOn(x)

\* fit_predict was called and returned: _detect_anomalies got past its
\* guard (line 73) and did not raise
FitPredictRan(h, lg) ==
    /\ Len(lg) > 0
    /\ lg[1] = "_detect_anomalies"
    /\ ~(DfEmpty(h) \/ ~HasColumn(h, "heart_rate"))

\* the anomaly model after a predict_health call with log lg
AnomalyModelAfter(cur, h, lg) ==
    IF FitPredictRan(h, lg) THEN AnomalyFit(cur, h) ELSE cur

\* The states a scaler can be in after a call with log lg, where step is
\* the log entry of the model's predict and failed that of a predict that
\* raised: fit_transform raising leaves the scaler reset, inference raising
\* after it leaves the scaler fitted
ScalerAfter(cur, x, lg, step, failed) ==
    IF step \in Range(lg) THEN {ScalerFit(cur, x)}
    ELSE IF failed \in Range(lg) THEN {Unfitted, ScalerFit(cur, x)}
    ELSE {cur}

\* what the inference of a call read: nothing, or the fitted state
NotRead == [fit |-> "notread", on |-> <<>>]

ReadOf(after, lg, step, failed) ==
    IF (step \in Range(lg) \/ failed \in Range(lg)) /\ after.fit = "call"
    THEN after ELSE NotRead

NothingRead ==
    [anomaly_model |-> NotRead, lstm_scaler |-> NotRead, cnn_scaler |-> NotRead]

----------------------------------------------------------------------------
(* ConnectionManager (routes/websocket.py): active_connections maps a user *)
(* id to the set of its websockets; a user id without a set is not a key.  *)

Sockets == {"w1", "w2", "w3"}

Users == {"u1", "u2"}

\* self.active_connections = {}
NoConnections == [u \in {} |-> {}]

\* self.active_connections[user_id], or the empty set for a user not a key
ConnectionsOf(reg, u) == IF u \in DOMAIN reg THEN reg[u] ELSE {}

\* lines 27-29 of connect, after accept has returned
AddConnection(reg, w, u) ==
    [x \in DOMAIN reg \cup {u} |-> IF x = u THEN ConnectionsOf(reg, u) \cup {w}
                                   ELSE reg[x]]

\* lines 31-36
disconnect(reg, w, u) ==
    IF u \in DOMAIN reg
    THEN IF reg[u] \ {w} = {}
         THEN [x \in DOMAIN reg \ {u} |-> reg[x]]
         ELSE [reg EXCEPT ![u] = @ \ {w}]
    ELSE reg

\* lines 52-53: for conn in disconnected: self.disconnect(conn, user_id)
RECURSIVE DisconnectAll(_, _, _)
DisconnectAll(reg, S, u) ==
    IF S = {} THEN reg
    ELSE LET w == CHOOSE x \in S : TRUE
         IN  DisconnectAll(disconnect(reg, w, u), S \ {w}, u)

\* A websocket and its endpoint coroutine: "free" (no client yet),
\* "accepting" (connect awaits accept), "open" (connect has returned, the
\* endpoint awaits receive_text), "closed" (the endpoint has called
\* disconnect).  alive: the client is still there; failed: a send to it
\* raised during a broadcast.
FreeSocket == [st |-> "free", user |-> "none", alive |-> TRUE, failed |-> FALSE]

\* broadcast_to_user: "idle" (no broadcast), "sending" (suspended in
\* await connection.send_json), "done" (returned), "raised" (an exception
\* left it).  The set iterator keeps the set object and the size it found
\* (si_used); sent and disconnected are the connections tried; stayed and
\* modified record what happened to the set object while it was iterated,
\* orphaned that its key was deleted.
IdleBroadcast ==
    [pc |-> "idle", user |-> "none", si_used |-> 0, sending |-> "none",
     sent |-> {}, disconnected |-> {}, stayed |-> {},
     modified |-> FALSE, orphaned |-> FALSE]

----------------------------------------------------------------------------
(* GET /ratings/{user_id} (routes/ratings.py).  health_ratings is the      *)
(* committed content of the health_ratings table; a row carries its user,  *)
(* its timestamp (server default now(): the start of the inserting         *)
(* request's transaction, kept as a rank) and its metabolic_rate.          *)

RatingRequests == {"q1", "q2"}

NoRating == [user |-> "none", ts |-> 0, metabolic_rate |-> "none"]

\* "idle", "select" (the query for the latest rating is awaited), "stats"
\* (the aggregate query of calculate_ratings is awaited), "commit"
\* (db.commit() is awaited), "done" (the response is ready), "failed" (an
\* exception became HTTP 500).  existed: the user had a row when the
\* request arrived
IdleRating ==
    [pc |-> "idle", user |-> "none", existed |-> FALSE, ts |-> 0,
     response |-> NoRating]

\* the rows of user u
RatingsOf(rows, u) == {r \in rows : r.user = u}

\* order_by(desc(timestamp)).limit(1) over a user's rows, not empty
LatestRating(rows, u) ==
    CHOOSE r \in RatingsOf(rows, u) : \A s \in RatingsOf(rows, u) : s.ts <= r.ts

\* the aggregate rows (avg_hr, avg_temp, total_steps) a request may find
RatingStats ==
    {<<Val(90), Val(375), Val(8001)>>, <<Val(60), Val(365), Val(3000)>>,
     <<Val(50), Val(360), Null>>}

----------------------------------------------------------------------------
(* The service: one call at a time.  A call is taken when the service is  *)
(* idle (op = "none"), runs to its return or its exception in one step,    *)
(* and Return hands the outcome to the caller.  Spec takes every call on a *)
(* service as constructed; SpecShared below takes calls one after another  *)
(* and interleaved on one long-lived service.                              *)

NoResult == [none |-> TRUE]

NoArgs == [none |-> TRUE]

\* the two requests in flight
Requests == {"r1", "r2"}

\* what the risk scorer of a call was given and returned: the flags of the
\* anomaly detector, the score (-1: no score, the call raised), and the
\* stress model's scaler as the service held it when it was called
NoResponse == [risk_score |-> -1, flags |-> <<>>, held |-> Unfitted]

ResponseOf(o, held) ==
    [risk_score |-> IF IsRaised(o.result) THEN -1 ELSE o.result.risk_score,
     flags |-> o.flags, held |-> held]

Idle ==
    [pc |-> "idle", kind |-> "none", input |-> <<>>, read |-> NothingRead,
     response |-> NoResponse]

Init ==
    /\ op = "none"
    /\ vitals = <<>>
    /\ imu = <<>>
    /\ flags = <<>>
    /\ log = <<>>
    /\ result = NoResult
    /\ anomaly_model = Unfitted
    /\ lstm_scaler = Unfitted
    /\ cnn_scaler = Unfitted
    /\ requests = [r \in Requests |-> Idle]
    /\ args = NoArgs
    /\ active_connections = NoConnections
    /\ sockets = [w \in Sockets |-> FreeSocket]
    /\ broadcast = IdleBroadcast
    /\ health_ratings = {}
    /\ rating_requests = [q \in RatingRequests |-> IdleRating]

\* predict_health(h) with outcome o, leaving the LSTM scaler as ls
HealthCall(h, o, ls) ==
    /\ op' = "predict_health"
    /\ vitals' = h
    /\ imu' = <<>>
    /\ flags' = o.flags
    /\ log' = o.log
    /\ result' = o.result
    /\ anomaly_model' = AnomalyModelAfter(anomaly_model, h, o.log)
    /\ lstm_scaler' = ls
    /\ cnn_scaler' = cnn_scaler
    /\ UNCHANGED otherVars

\* predict_activity(d) with outcome o, leaving the CNN scaler as cs
ActivityCall(d, o, cs) ==
    /\ op' = "predict_activity"
    /\ vitals' = <<>>
    /\ imu' = d
    /\ flags' = <<>>
    /\ log' = o.log
    /\ result' = o.result
    /\ cnn_scaler' = cs
    /\ UNCHANGED <<anomaly_model, lstm_scaler>>
    /\ UNCHANGED otherVars

PredictHealth ==
    /\ op = "none"
    /\ \E h \in VitalsInputs : \E o \in predict_health(h) :
       \E ls \in ScalerAfter(lstm_scaler, h, o.log,
                             "lstm.predict", "lstm.predict!") :
          HealthCall(h, o, ls)
    /\ UNCHANGED requests

\* _calculate_risk_score called on its own, with any flag sequence
CalculateRiskScore ==
    /\ op = "none"
    /\ \E h \in VitalsInputs : \E fl \in FlagPatterns(Len(h)) :
        /\ op' = "_calculate_risk_score"
        /\ vitals' = h
        /\ imu' = <<>>
        /\ flags' = fl
        /\ log' = <<>>
        /\ result' = [risk_score |-> _calculate_risk_score(h, fl)]
    /\ UNCHANGED <<anomaly_model, lstm_scaler, cnn_scaler, requests, otherVars>>

PredictActivity ==
    /\ op = "none"
    /\ \E d \in ActivityInputs : \E o \in predict_activity(d) :
       \E cs \in ScalerAfter(cnn_scaler, prepare_windows(d), o.log,
                             "cnn.predict", "cnn.predict!") :
          ActivityCall(d, o, cs)
    /\ UNCHANGED requests

\* what _predict_stress_level is given: the frame of a non-empty history
StressInputs == {h \in SleepVitalsInputs : Len(h) > 0}

\* _predict_stress_level called on its own
PredictStressLevel ==
    /\ op = "none"
    /\ \E h \in StressInputs :
        /\ op' = "_predict_stress_level"
        /\ vitals' = h
        /\ imu' = <<>>
        /\ flags' = <<>>
        /\ log' = <<>>
        /\ result' = [stress_level |-> _predict_stress_level(h)]
    /\ UNCHANGED <<anomaly_model, lstm_scaler, cnn_scaler, requests, otherVars>>

\* heart rates at and next to the tests of _predict_cardiovascular_risk
CardioHRVals == {85, 86, 100, 101}

\* what _predict_cardiovascular_risk is given: frames of one and two rows
CardioInputs ==
    {VitalsHistory(n, h1, h2, Absent, Absent, Absent) :
        n \in {1, 2}, h1 \in FieldOf(CardioHRVals), h2 \in FieldOf(CardioHRVals)}

\* _predict_cardiovascular_risk called on its own
PredictCardiovascularRisk ==
    /\ op = "none"
    /\ \E h \in CardioInputs :
        /\ op' = "_predict_cardiovascular_risk"
        /\ vitals' = h
        /\ imu' = <<>>
        /\ flags' = <<>>
        /\ log' = <<>>
        /\ result' = [cardiovascular_risk |-> _predict_cardiovascular_risk(h)]
    /\ UNCHANGED <<anomaly_model, lstm_scaler, cnn_scaler, requests, otherVars>>

\* _determine_metabolic_rate called on its own
DetermineMetabolicRate ==
    /\ op = "none"
    /\ \E hr \in Nullable(AvgHRVals) : \E temp \in Nullable(AvgTempVals) :
       \E steps \in Nullable(TotalStepsVals) :
        /\ op' = "_determine_metabolic_rate"
        /\ args' = [avg_hr |-> hr, avg_temp |-> temp, total_steps |-> steps]
        /\ result' = LET label == _determine_metabolic_rate(hr, temp, steps)
                     IN  IF label = "raise" THEN Raised
                         ELSE [metabolic_rate |-> label]
    /\ UNCHANGED <<vitals, imu, flags, log>>
    /\ UNCHANGED <<anomaly_model, lstm_scaler, cnn_scaler, requests,
                   wsVars, ratingVars>>

\* a sequence model is constructed
ConstructModel ==
    /\ op = "none"
    /\ \E c \in ModelClasses : \E mf \in FileStates : \E sf \in FileStates :
        /\ op' = "__init__"
        /\ args' = [class |-> c, model_file |-> mf, scaler_file |-> sf]
        /\ result' = _load_or_create_model(mf, sf)
    /\ UNCHANGED <<vitals, imu, flags, log>>
    /\ UNCHANGED <<anomaly_model, lstm_scaler, cnn_scaler, requests,
                   wsVars, ratingVars>>

\* LSTMStressModel.prepare_sequences called on its own
PrepareSequences ==
    /\ op = "none"
    /\ \E h \in SequenceInputs :
        /\ op' = "prepare_sequences"
        /\ vitals' = h
        /\ imu' = <<>>
        /\ flags' = <<>>
        /\ log' = <<>>
        /\ result' = prepare_sequences(h)
    /\ UNCHANGED <<anomaly_model, lstm_scaler, cnn_scaler, requests, otherVars>>

\* CNNActivityModel.prepare_windows called on its own
PrepareWindows ==
    /\ op = "none"
    /\ \E d \in WindowInputs :
        /\ op' = "prepare_windows"
        /\ vitals' = <<>>
        /\ imu' = d
        /\ flags' = <<>>
        /\ log' = <<>>
        /\ result' = [windows |-> prepare_windows(d)]
    /\ UNCHANGED <<anomaly_model, lstm_scaler, cnn_scaler, requests, otherVars>>

PredictSleepStages ==
    /\ op = "none"
    /\ \E h \in SleepVitalsInputs : \E d \in SleepImuInputs :
       \E r \in predict_sleep_stages(h, d) :
        /\ op' = "predict_sleep_stages"
        /\ vitals' = h
        /\ imu' = d
        /\ flags' = <<>>
        /\ log' = <<>>
        /\ result' = r
    /\ UNCHANGED <<anomaly_model, lstm_scaler, cnn_scaler, requests, otherVars>>

\* the outcome goes to the caller; the next call is taken on a service as
\* constructed
Return ==
    /\ op # "none"
    /\ op' = "none"
    /\ vitals' = <<>>
    /\ imu' = <<>>
    /\ flags' = <<>>
    /\ log' = <<>>
    /\ result' = NoResult
    /\ anomaly_model' = Unfitted
    /\ lstm_scaler' = Unfitted
    /\ cnn_scaler' = Unfitted
    /\ args' = NoArgs
    /\ UNCHANGED <<requests, wsVars, ratingVars>>

Next ==
    \/ PredictHealth
    \/ CalculateRiskScore
    \/ PredictStressLevel
    \/ PredictCardiovascularRisk
    \/ DetermineMetabolicRate
    \/ ConstructModel
    \/ PrepareSequences
    \/ PredictActivity
    \/ PrepareWindows
    \/ PredictSleepStages
    \/ Return

Spec == Init /\ [][Next]_vars

----------------------------------------------------------------------------
(* One MLService shared by the requests in flight (routes/analytics.py:    *)
(* the module-level ml_service).  The routes are coroutines on one event   *)
(* loop: a request is suspended while its body or its database rows are    *)
(* awaited, and the service call itself has no await in it, so that it     *)
(* runs from its first line to its return with no other request running.   *)
(* op, vitals, imu, flags, log and result are those of the call run last.  *)

\* the histories of the requests: a single sample, and MinStressSamples
\* samples
SharedVitals ==
    {VitalsHistory(1, Val(70), Val(70), Val(98), Val(365), Absent),
     VitalsHistory(MinStressSamples, Val(110), Val(70), Val(90), Val(380), Absent)}

SharedImu ==
    {ImuHistory(MinActivitySamples, ImuSample(Val(0), Val(0), Val(10)),
                                    ImuSample(Val(0), Val(0), Val(10))),
     ImuHistory(MinActivitySamples, ImuSample(Val(0), Val(0), Val(51)), EmptyDict)}

\* POST /predict arrives with its vitals_history
ReceiveHealth(r) ==
    /\ requests[r].pc = "idle"
    /\ \E h \in SharedVitals :
          requests' = [requests EXCEPT ![r] =
              [pc |-> "received", kind |-> "predict_health", input |-> h,
               read |-> NothingRead, response |-> NoResponse]]
    /\ UNCHANGED <<op, vitals, imu, flags, log, result,
                   anomaly_model, lstm_scaler, cnn_scaler, otherVars>>

\* POST /activity arrives with its imu_data
ReceiveActivity(r) ==
    /\ requests[r].pc = "idle"
    /\ \E d \in SharedImu :
          requests' = [requests EXCEPT ![r] =
              [pc |-> "received", kind |-> "predict_activity", input |-> d,
               read |-> NothingRead, response |-> NoResponse]]
    /\ UNCHANGED <<op, vitals, imu, flags, log, result,
                   anomaly_model, lstm_scaler, cnn_scaler, otherVars>>

\* the route of request r calls ml_service.predict_health
CallHealth(r) ==
    /\ requests[r].pc = "received"
    /\ requests[r].kind = "predict_health"
    /\ LET h == requests[r].input
       IN  \E o \in predict_health(h) :
           \E ls \in ScalerAfter(lstm_scaler, h, o.log,
                                 "lstm.predict", "lstm.predict!") :
              /\ HealthCall(h, o, ls)
              /\ requests' = [requests EXCEPT ![r] =
                    [pc |-> "done", kind |-> "predict_health", input |-> h,
                     read |->
                       [anomaly_model |->
                            IF FitPredictRan(h, o.log)
                            THEN AnomalyModelAfter(anomaly_model, h, o.log)
                            ELSE NotRead,
                        lstm_scaler |->
                            ReadOf(ls, o.log, "lstm.predict", "lstm.predict!"),
                        cnn_scaler |-> NotRead],
                     response |-> ResponseOf(o, lstm_scaler)]]

\* the route of request r calls ml_service.predict_activity
CallActivity(r) ==
    /\ requests[r].pc = "received"
    /\ requests[r].kind = "predict_activity"
    /\ LET d == requests[r].input
       IN  \E o \in predict_activity(d) :
           \E cs \in ScalerAfter(cnn_scaler, prepare_windows(d), o.log,
                                 "cnn.predict", "cnn.predict!") :
              /\ ActivityCall(d, o, cs)
              /\ requests' = [requests EXCEPT ![r] =
                    [pc |-> "done", kind |-> "predict_activity", input |-> d,
                     read |->
                       [anomaly_model |-> NotRead,
                        lstm_scaler |-> NotRead,
                        cnn_scaler |->
                            ReadOf(cs, o.log, "cnn.predict", "cnn.predict!")],
                     response |-> NoResponse]]

\* the response of request r is sent
Respond(r) ==
    /\ requests[r].pc = "done"
    /\ requests' = [requests EXCEPT ![r] = Idle]
    /\ UNCHANGED <<op, vitals, imu, flags, log, result,
                   anomaly_model, lstm_scaler, cnn_scaler, otherVars>>

NextShared ==
    \E r \in Requests :
        \/ ReceiveHealth(r)
        \/ ReceiveActivity(r)
        \/ CallHealth(r)
        \/ CallActivity(r)
        \/ Respond(r)

SpecShared == Init /\ [][NextShared]_vars

----------------------------------------------------------------------------
(* The websocket routes on the module-level manager.  The endpoints and    *)
(* the broadcast route are coroutines on one event loop: each runs alone   *)
(* from one await to the next, and the others run while it is suspended.   *)
(* disconnect has no await and runs in one piece.                          *)

mlVars ==
    <<op, vitals, imu, flags, log, result, anomaly_model, lstm_scaler,
      cnn_scaler, requests, args>>

\* What a change of the registry by connect or disconnect does to the set
\* object a suspended broadcast iterates
Touch(b, before, after, u) ==
    IF /\ b.pc = "sending"
       /\ b.user = u
       /\ ~b.orphaned
       /\ ConnectionsOf(after, u) # ConnectionsOf(before, u)
    THEN [b EXCEPT !.modified = TRUE,
                   !.stayed = @ \cap ConnectionsOf(after, u),
                   !.orphaned = u \notin DOMAIN after]
    ELSE b

\* The broadcast from a line where it holds the loop to its next await, its
\* return or its exception: next() of the set iterator raises RuntimeError
\* (Set changed size during iteration) when the set object has not the size
\* the iterator found, and otherwise yields an entry not yet yielded or
\* ends; an entry added during the iteration may be yielded or missed.  At
\* the end of the loop the failed connections are disconnected.
Advance(b, reg) ==
    LET cur == IF b.orphaned THEN {} ELSE ConnectionsOf(reg, b.user)
        remaining == cur \ (b.sent \cup b.disconnected)
        sends == {[b |-> [b EXCEPT !.pc = "sending", !.sending = c],
                   reg |-> reg] : c \in remaining}
        stop == {[b |-> [b EXCEPT !.pc = "done", !.sending = "none"],
                  reg |-> DisconnectAll(reg, b.disconnected, b.user)]}
    IN  IF Cardinality(cur) # b.si_used
        THEN {[b |-> [b EXCEPT !.pc = "raised", !.sending = "none"],
               reg |-> reg]}
        ELSE IF remaining = {} THEN stop
        ELSE IF remaining \cap b.stayed # {} THEN sends
        ELSE sends \cup stop

\* a client opens /ws/{user_id}: the endpoint calls manager.connect, which
\* awaits websocket.accept()
WsConnect(w, u) ==
    /\ sockets[w].st = "free"
    /\ sockets' = [sockets EXCEPT ![w] = [@ EXCEPT !.st = "accepting", !.user = u]]
    /\ UNCHANGED <<mlVars, active_connections, broadcast, ratingVars>>

\* accept has returned: connect registers the websocket and returns
WsAccepted(w) ==
    /\ sockets[w].st = "accepting"
    /\ LET u == sockets[w].user
           after == AddConnection(active_connections, w, u)
       IN  /\ active_connections' = after
           /\ broadcast' = Touch(broadcast, active_connections, after, u)
    /\ sockets' = [sockets EXCEPT ![w] = [@ EXCEPT !.st = "open"]]
    /\ UNCHANGED <<mlVars, ratingVars>>

\* the client of an open websocket goes away
WsClientGone(w) ==
    /\ sockets[w].st = "open"
    /\ sockets[w].alive
    /\ sockets' = [sockets EXCEPT ![w] = [@ EXCEPT !.alive = FALSE]]
    /\ UNCHANGED <<mlVars, active_connections, broadcast, ratingVars>>

\* receive_text raises WebSocketDisconnect: the endpoint calls
\* manager.disconnect
WsEndpointDisconnect(w) ==
    /\ sockets[w].st = "open"
    /\ ~sockets[w].alive
    /\ LET u == sockets[w].user
           after == disconnect(active_connections, w, u)
       IN  /\ active_connections' = after
           /\ broadcast' = Touch(broadcast, active_connections, after, u)
    /\ sockets' = [sockets EXCEPT ![w] = [@ EXCEPT !.st = "closed"]]
    /\ UNCHANGED <<mlVars, ratingVars>>

\* POST /ws/broadcast/{user_id}: broadcast_to_user up to its first send
BroadcastStart(u) ==
    /\ broadcast.pc = "idle"
    /\ IF u \in DOMAIN active_connections
       THEN \E o \in Advance([IdleBroadcast EXCEPT
                                 !.user = u,
                                 !.si_used = Cardinality(active_connections[u]),
                                 !.stayed = active_connections[u]],
                             active_connections) :
               /\ broadcast' = o.b
               /\ active_connections' = o.reg
       ELSE /\ broadcast' = [IdleBroadcast EXCEPT !.pc = "done", !.user = u]
            /\ UNCHANGED active_connections
    /\ UNCHANGED <<mlVars, sockets, ratingVars>>

\* the send the broadcast was suspended on returns, or raises because the
\* client is gone, and the loop goes on to its next await
BroadcastResume ==
    /\ broadcast.pc = "sending"
    /\ LET c == broadcast.sending
           b == IF sockets[c].alive
                THEN [broadcast EXCEPT !.sent = @ \cup {c}]
                ELSE [broadcast EXCEPT !.disconnected = @ \cup {c}]
       IN  /\ sockets' = [sockets EXCEPT ![c] =
                             [@ EXCEPT !.failed = @ \/ ~sockets[c].alive]]
           /\ \E o \in Advance(b, active_connections) :
                 /\ broadcast' = o.b
                 /\ active_connections' = o.reg
    /\ UNCHANGED <<mlVars, ratingVars>>

\* the broadcast route answers: the status, or 500 after an exception
BroadcastReturn ==
    /\ broadcast.pc \in {"done", "raised"}
    /\ broadcast' = IdleBroadcast
    /\ UNCHANGED <<mlVars, active_connections, sockets, ratingVars>>

NextWs ==
    \/ \E w \in Sockets : \E u \in Users : WsConnect(w, u)
    \/ \E w \in Sockets : WsAccepted(w)
    \/ \E w \in Sockets : WsClientGone(w)
    \/ \E w \in Sockets : WsEndpointDisconnect(w)
    \/ \E u \in Users : BroadcastStart(u)
    \/ BroadcastResume
    \/ BroadcastReturn

SpecWs == Init /\ [][NextWs]_vars

----------------------------------------------------------------------------
(* The ratings route, one coroutine and one database session per request.  *)
(* A request runs alone from one await to the next; its queries read what   *)
(* is committed when they run, and its row is in the table from its commit. *)

RECURSIVE MaxOf(_)
MaxOf(S) ==
    IF S = {} THEN 0
    ELSE LET x == CHOOSE y \in S : TRUE
             m == MaxOf(S \ {x})
         IN  IF x > m THEN x ELSE m

\* the rank of a transaction that starts now: after every transaction that
\* has started
NextTimestamp ==
    1 + MaxOf({r.ts : r \in health_ratings}
              \cup {rating_requests[q].ts : q \in RatingRequests})

\* GET /ratings/{user_id} arrives and awaits the query for the latest rating
RatingsReceive(q, u) ==
    /\ rating_requests[q].pc = "idle"
    /\ rating_requests' = [rating_requests EXCEPT ![q] =
          [IdleRating EXCEPT !.pc = "select", !.user = u,
                             !.existed = RatingsOf(health_ratings, u) # {}]]
    /\ UNCHANGED <<mlVars, wsVars, health_ratings>>

\* lines 28-47: the query returns; a stored rating is answered, without
\* one calculate_ratings is entered and awaits its aggregate query
RatingsSelected(q) ==
    /\ rating_requests[q].pc = "select"
    /\ LET u == rating_requests[q].user
       IN  IF RatingsOf(health_ratings, u) # {}
           THEN rating_requests' = [rating_requests EXCEPT ![q] =
                   [@ EXCEPT !.pc = "done",
                             !.response = LatestRating(health_ratings, u)]]
           ELSE rating_requests' = [rating_requests EXCEPT ![q] =
                   [@ EXCEPT !.pc = "stats", !.ts = NextTimestamp]]
    /\ UNCHANGED <<mlVars, wsVars, health_ratings>>

\* rating_service.py lines 33-68: the aggregate row is there; the ratings
\* are computed, which raises or ends with db.add and the awaited commit
RatingsCalculated(q) ==
    /\ rating_requests[q].pc = "stats"
    /\ \E stats \in RatingStats :
          LET rate == _determine_metabolic_rate(stats[1], stats[2], stats[3])
              r == rating_requests[q]
          IN  rating_requests' = [rating_requests EXCEPT ![q] =
                 IF rate = "raise"
                 THEN [r EXCEPT !.pc = "failed"]
                 ELSE [r EXCEPT !.pc = "commit",
                                !.response = [user |-> r.user, ts |-> r.ts,
                                              metabolic_rate |-> rate]]]
    /\ UNCHANGED <<mlVars, wsVars, health_ratings>>

\* the commit returns: the row is in the table
RatingsCommitted(q) ==
    /\ rating_requests[q].pc = "commit"
    /\ health_ratings' = health_ratings \cup {rating_requests[q].response}
    /\ rating_requests' = [rating_requests EXCEPT ![q] = [@ EXCEPT !.pc = "done"]]
    /\ UNCHANGED <<mlVars, wsVars>>

\* Timestamps are kept as ranks: the rank of t among the timestamps T of
\* the rows and of the transactions in flight
RankIn(T, t) == IF t = 0 THEN 0 ELSE Cardinality({x \in T : x <= t})

\* the response, or HTTP 500, is sent; the timestamp of a transaction that
\* inserted nothing is forgotten and the ranks are closed up
RatingsRespond(q) ==
    /\ rating_requests[q].pc \in {"done", "failed"}
    /\ LET reqs == [rating_requests EXCEPT ![q] = IdleRating]
           T == {r.ts : r \in health_ratings}
                \cup {reqs[p].ts : p \in RatingRequests}
       IN  /\ rating_requests' =
                 [p \in RatingRequests |->
                     [reqs[p] EXCEPT !.ts = RankIn(T, @),
                                     !.response = [@ EXCEPT !.ts = RankIn(T, @)]]]
           /\ health_ratings' =
                 {[r EXCEPT !.ts = RankIn(T, @)] : r \in health_ratings}
    /\ UNCHANGED <<mlVars, wsVars>>

NextRatings ==
    \E q \in RatingRequests :
        \/ \E u \in Users : RatingsReceive(q, u)
        \/ RatingsSelected(q)
        \/ RatingsCalculated(q)
        \/ RatingsCommitted(q)
        \/ RatingsRespond(q)

SpecRatings == Init /\ [][NextRatings]_vars

----------------------------------------------------------------------------
(* Properties                                                              *)

\* C1: predict_health on an empty vitals history returns exactly risk_score
\* 50.0, cardiovascular_risk "low", sleep_quality 75, stress_level
\* "moderate" and the single recommendation "Collect more data for accurate
\* predictions", and runs neither anomaly detection, scoring, a classifier
\* nor the recommendation generator.
C1_EmptyHistoryDefaults ==
    (op = "predict_health" /\ vitals = <<>>) =>
        /\ result = [risk_score |-> 50,
                     predictions |-> [cardiovascular_risk |-> "low",
                                      sleep_quality |-> 75,
                                      stress_level |-> "moderate"],
                     recommendations |->
                         <<"Collect more data for accurate predictions">>]
        /\ log = <<"_default_predictions">>

C1_Witness ==
    op = "predict_health" /\ vitals = <<>> /\ "recommendations" \in DOMAIN result

\* C2: the risk score returned by _calculate_risk_score, called on its own
\* with any flag sequence or inside predict_health, is between 0 and 100.
C2_RiskScoreInRange ==
    /\ op = "_calculate_risk_score" =>
           (0 <= result.risk_score /\ result.risk_score <= 100)
    /\ (op = "predict_health" /\ ~IsRaised(result)) =>
           (0 <= result.risk_score /\ result.risk_score <= 100)

\* the four penalties add up to more than 100 and the score is 100
C2_Witness ==
    /\ op = "_calculate_risk_score"
    /\ HasColumn(vitals, "heart_rate") /\ GT(Mean(vitals, "heart_rate"), 100)
    /\ AnyTrue(flags)
    /\ LT(Mean(vitals, "spo2"), 95)
    /\ GT(Mean(vitals, "temperature"), 375)
    /\ result.risk_score = 100

\* the penalty conditions of the risk rules, each on its own signal
HRCondition(h) == GT(Mean(h, "heart_rate"), 100) \/ LT(Mean(h, "heart_rate"), 60)
SpO2Condition(h) == LT(Mean(h, "spo2"), 95)
TempCondition(h) ==
    GT(Mean(h, "temperature"), 375) \/ LT(Mean(h, "temperature"), 360)

\* C3: for every non-empty batch and flag sequence the risk score is
\* min(100, 50 + 10*[mean HR > 100 or < 60] + 15*[any flag true]
\* + 20*[mean SpO2 < 95] + 10*[mean temperature > 37.5 or < 36.0]), each
\* penalty independent of the others: the anomaly penalty applies whether
\* or not heart-rate data is present.
C3_IndependentPenalties ==
    (op = "_calculate_risk_score" /\ ~DfEmpty(vitals)) =>
        result.risk_score =
            Min(100, 50 + (IF HRCondition(vitals) THEN 10 ELSE 0)
                        + (IF AnyTrue(flags) THEN 15 ELSE 0)
                        + (IF SpO2Condition(vitals) THEN 20 ELSE 0)
                        + (IF TempCondition(vitals) THEN 10 ELSE 0))

\* the batch with column f rewritten: a in the first row, b in the others
ReplaceColumn(h, f, a, b) ==
    [i \in 1..Len(h) |-> [h[i] EXCEPT ![f] = IF i = 1 THEN a ELSE b]]

\* C4: the risk score is monotonic non-decreasing in each penalty condition
\* in isolation: for two inputs that differ only in the signal of one
\* condition (the heart-rate column, the flag sequence, the SpO2 column, the
\* temperature column), the condition being false in the first and true in
\* the second, the second score is at least the first.
C4_MonotoneInEachPenalty ==
    op = "_calculate_risk_score" =>
        /\ \A a \in FieldOf(HRVals), b \in FieldOf(HRVals) :
              LET h2 == ReplaceColumn(vitals, "heart_rate", a, b)
              IN  (~HRCondition(vitals) /\ HRCondition(h2)) =>
                      _calculate_risk_score(h2, flags) >= result.risk_score
        /\ \A fl \in FlagPatterns(Len(vitals)) :
              (~AnyTrue(flags) /\ AnyTrue(fl)) =>
                  _calculate_risk_score(vitals, fl) >= result.risk_score
        /\ \A a \in FieldOf(SpO2Vals), b \in FieldOf(SpO2Vals) :
              LET h2 == ReplaceColumn(vitals, "spo2", a, b)
              IN  (~SpO2Condition(vitals) /\ SpO2Condition(h2)) =>
                      _calculate_risk_score(h2, flags) >= result.risk_score
        /\ \A a \in FieldOf(TempVals), b \in FieldOf(TempVals) :
              LET h2 == ReplaceColumn(vitals, "temperature", a, b)
              IN  (~TempCondition(vitals) /\ TempCondition(h2)) =>
                      _calculate_risk_score(h2, flags) >= result.risk_score

\* a score that making the SpO2 condition true raises
C4_Witness ==
    /\ op = "_calculate_risk_score"
    /\ ~SpO2Condition(vitals)
    /\ \E a \in FieldOf(SpO2Vals) :
          LET h2 == ReplaceColumn(vitals, "spo2", a, a)
          IN  SpO2Condition(h2)
              /\ _calculate_risk_score(h2, flags) > result.risk_score

\* a complete prediction record
IsPredictionRecord(r) ==
    /\ DOMAIN r = {"risk_score", "predictions", "recommendations"}
    /\ DOMAIN r.predictions =
           {"cardiovascular_risk", "sleep_quality", "stress_level"}

\* C5: predict_health never raises for absent, null or short data: for
\* every history, whatever fields are missing or null, it returns a
\* complete prediction record.
C5_NeverRaises ==
    op = "predict_health" => (~IsRaised(result) /\ IsPredictionRecord(result))

\* C6: stress prediction falls back silently to the heuristic: with fewer
\* than 10 samples the sequence model is not invoked and the heuristic
\* result is returned; when window preparation or inference raises, the
\* heuristic result for the same history is returned; in neither case does
\* an error reach predict_health.
C6_StressFallback ==
    (op = "predict_health" /\ "_predict_stress_level_lstm" \in Range(log)) =>
        /\ ~IsRaised(result)
        /\ Len(vitals) < 10 =>
              /\ Range(log) \cap {"prepare_sequences", "prepare_sequences!",
                                  "lstm.predict", "lstm.predict!"} = {}
              /\ result.predictions.stress_level = _predict_stress_level(vitals)
        /\ (Range(log) \cap {"prepare_sequences!", "lstm.predict!"} # {}) =>
              result.predictions.stress_level = _predict_stress_level(vitals)

\* inference raised and the call returned the heuristic's level
C6_Witness ==
    /\ op = "predict_health"
    /\ "lstm.predict!" \in Range(log)
    /\ ~IsRaised(result)
    /\ result.predictions.stress_level = "high"

\* C7: predict_activity given fewer than 10 IMU samples (zero included)
\* returns activity "stationary" with confidence 0.5 and calls neither
\* prepare_windows nor the model's predict.
C7_ShortImuDefault ==
    (op = "predict_activity" /\ Len(imu) < 10) =>
        /\ result = [activity |-> "stationary", confidence |-> 50]
        /\ log = <<>>

C7_Witness ==
    op = "predict_activity" /\ Len(imu) = 9 /\ result.activity = "stationary"

\* C8: a failure inside the activity classifier (window preparation or
\* inference raising) is caught and replaced by {stationary, 0.5};
\* predict_activity never propagates it.
C8_ActivityFailureCaught ==
    op = "predict_activity" =>
        /\ ~IsRaised(result)
        /\ (Range(log) \cap {"prepare_windows!", "cnn.predict!"} # {}) =>
              result = [activity |-> "stationary", confidence |-> 50]

C8_Witness ==
    /\ op = "predict_activity"
    /\ "cnn.predict!" \in Range(log)
    /\ result = [activity |-> "stationary", confidence |-> 50]

RECURSIVE SumSeq(_, _)
SumSeq(q, i) == IF i = 0 THEN 0 ELSE q[i] + SumSeq(q, i - 1)

\* C9: every ActivityPrediction, on every path, carries a probabilities
\* mapping over the four activities that sums to 1.0, with activity its
\* arg-max and confidence that activity's probability, in [0,1].
C9_ProbabilitiesOnEveryPath ==
    op = "predict_activity" =>
        /\ "probabilities" \in DOMAIN result
        /\ DOMAIN result.probabilities =
               {"stationary", "walking", "running", "cycling"}
        /\ SumSeq([i \in 1..4 |-> result.probabilities[activity_classes[i]]], 4)
               = 100
        /\ \A c \in DOMAIN result.probabilities :
               result.probabilities[c] <= result.probabilities[result.activity]
        /\ result.confidence = result.probabilities[result.activity]
        /\ 0 <= result.confidence /\ result.confidence <= 100

\* the features the sleep rules read
SleepHRMean(h) ==
    IF HasColumn(h, "heart_rate") THEN Mean(h, "heart_rate") ELSE Num(70)
SleepHRVar(h) ==
    IF HasColumn(h, "heart_rate") THEN Variance(h, "heart_rate") ELSE Num(25)
SleepMovement(d) == IF HasColumn(d, "accel_x") THEN Movement(d) ELSE Num(10)
IsExactly(q, c) == q.den > 0 /\ q.num = c * q.den

\* C10: sleep-stage classification applies its rules in order, the first
\* match winning: motion > 0.5 gives [.7,.2,.05,.05]/wake; else HR std < 3
\* and mean < 65 gives [.05,.1,.7,.15]/deep; else HR std < 5 and
\* 60 < mean < 75 gives [.1,.2,.2,.5]/rem; else [.15,.5,.2,.15]/light.
\* Motion exactly 0.5 is never wake, motion 0.51 always is, whatever the
\* heart rate.
C10_SleepRulesInOrder ==
    (op = "predict_sleep_stages" /\ Len(vitals) > 0 /\ Len(imu) > 0
        /\ ~IsRaised(result)) =>
        LET m == SleepMovement(imu)
            mean == SleepHRMean(vitals)
            var == SleepHRVar(vitals)
            rule1 == GT(m, 50)
            rule2 == StdLT(var, 3) /\ LT(mean, 65)
            rule3 == StdLT(var, 5) /\ GT(mean, 60) /\ LT(mean, 75)
        IN  /\ rule1 =>
                 result = [wake |-> 70, light |-> 20, deep |-> 5, rem |-> 5,
                           dominant_stage |-> "wake"]
            /\ (~rule1 /\ rule2) =>
                 result = [wake |-> 5, light |-> 10, deep |-> 70, rem |-> 15,
                           dominant_stage |-> "deep"]
            /\ (~rule1 /\ ~rule2 /\ rule3) =>
                 result = [wake |-> 10, light |-> 20, deep |-> 20, rem |-> 50,
                           dominant_stage |-> "rem"]
            /\ (~rule1 /\ ~rule2 /\ ~rule3) =>
                 result = [wake |-> 15, light |-> 50, deep |-> 20, rem |-> 15,
                           dominant_stage |-> "light"]
            /\ IsExactly(m, 50) => result.dominant_stage # "wake"
            /\ IsExactly(m, 51) => result.dominant_stage = "wake"

\* motion exactly 0.5 with a heart rate that rule 2 takes to deep sleep
C10_Witness ==
    /\ op = "predict_sleep_stages"
    /\ Len(vitals) > 0 /\ Len(imu) > 0
    /\ IsExactly(SleepMovement(imu), 50)
    /\ ~IsRaised(result)
    /\ result.dominant_stage = "deep"

\* the four probabilities of a sleep stage distribution, in the order wake,
\* light, deep, rem
sleep_stage_labels == <<"wake", "light", "deep", "rem">>

StageProbabilities(r) == <<r.wake, r.light, r.deep, r.rem>>

\* C11: every distribution predict_sleep_stages returns, from a rule or as
\* the default, has four non-negative probabilities that sum to 1.0 (100
\* percent), and its dominant_stage is the label at the first index of the
\* largest probability in the order wake, light, deep, rem.
C11_SleepDistributionWellFormed ==
    (op = "predict_sleep_stages" /\ ~IsRaised(result)) =>
        LET p == StageProbabilities(result)
        IN  /\ \A i \in 1..4 : p[i] >= 0
            /\ SumSeq(p, 4) = 100
            /\ result.dominant_stage = sleep_stage_labels[ArgMax(p)]

\* the default, whose largest probability is shared by light and deep
C11_Witness ==
    /\ op = "predict_sleep_stages"
    /\ ~IsRaised(result)
    /\ result.light = result.deep
    /\ ArgMax(StageProbabilities(result)) = 2
    /\ result.dominant_stage = "light"

\* the neutral default of predict_sleep_stages
IsSleepDefault(r) ==
    /\ ~IsRaised(r)
    /\ StageProbabilities(r) = <<20, 30, 30, 20>>
    /\ r.dominant_stage = "light"

\* C12: predict_sleep_stages returns the neutral default (0.2, 0.3, 0.3,
\* 0.2, light) whenever the vitals history is empty or the IMU list is
\* empty, and never returns it when both are non-empty.
C12_SleepDefaultIffEmpty ==
    (op = "predict_sleep_stages") =>
        (IsSleepDefault(result) <=> (Len(vitals) = 0 \/ Len(imu) = 0))

\* the default returned for a vitals history without IMU samples
C12_Witness ==
    /\ op = "predict_sleep_stages"
    /\ Len(vitals) > 0
    /\ Len(imu) = 0
    /\ IsSleepDefault(result)

\* the six advisories in the order of their tests
advisories ==
    <<"Consider consulting a healthcare professional",
      "Improve sleep hygiene - aim for 7-9 hours of sleep",
      "Practice stress-reduction techniques (meditation, deep breathing)",
      "Increase daily activity - aim for at least 10,000 steps",
      "Ensure adequate oxygen intake - consider breathing exercises",
      "Monitor temperature - consider rest and hydration">>

\* the condition of the i-th advisory, on the returned record and the
\* history of the call; a total or a mean is that of a field the history
\* supplies, and a mean of no values is below or above nothing
AdvisoryCondition(i) ==
    CASE i = 1 -> result.risk_score > 70
      [] i = 2 -> result.predictions.sleep_quality < 70
      [] i = 3 -> result.predictions.stress_level = "high"
      [] i = 4 -> /\ \E k \in 1..Len(vitals) : vitals[k].steps.k # "absent"
                  /\ Sum(vitals, "steps") < 5000
      [] i = 5 -> LT(Mean(vitals, "spo2"), 95)
      [] i = 6 -> GT(Mean(vitals, "temperature"), 375)

AdvisoriesDue == {i \in 1..6 : AdvisoryCondition(i)}

IsDue(a) == \E i \in AdvisoriesDue : advisories[i] = a

RecommendationsBuilt ==
    /\ op = "predict_health"
    /\ ~IsRaised(result)
    /\ "_generate_recommendations" \in Range(log)

C14_RecommendationsNonEmpty ==
    (op = "predict_health" /\ ~IsRaised(result)) =>
        Len(result.recommendations) >= 1

\* a record of a non-empty history none of whose advisories is due
C14_Witness ==
    /\ RecommendationsBuilt
    /\ AdvisoriesDue = {}
    /\ Len(result.recommendations) = 1

\* lines 84-91: the feature tuple of one sample
FeatureTuple(point) ==
    <<GetOrZero(point, "accel_x"), GetOrZero(point, "accel_y"),
      GetOrZero(point, "accel_z"), GetOrZero(point, "gyro_x"),
      GetOrZero(point, "gyro_y"), GetOrZero(point, "gyro_z")>>

\* the window of a list shorter than window_size: window_size tuples, the
\* first window_size - n those of the earliest or of the latest supplied
\* sample, the last n those of the supplied samples in order; all zero for
\* no sample
WindowPaddedWith(earliest) ==
    LET n == Len(imu)
        w == result.windows
        pad == IF earliest THEN 1 ELSE n
    IN  /\ Len(w) = window_size
        /\ \A i \in 1..window_size : Len(w[i]) = 6
        /\ (n > 0) =>
              /\ \A i \in 1..(window_size - n) : w[i] = FeatureTuple(imu[pad])
              /\ \A i \in 1..n : w[window_size - n + i] = FeatureTuple(imu[i])
        /\ (n = 0) =>
              \A i \in 1..window_size : w[i] = <<0, 0, 0, 0, 0, 0>>

\* C15: for 0 < n < window_size samples prepare_windows gives window_size
\* 6-tuples, the first window_size - n equal to the feature tuple of the
\* earliest supplied sample and the last n the supplied samples in order;
\* for no sample, all-zero tuples.
C15_PadsWithEarliest ==
    (op = "prepare_windows" /\ Len(imu) < window_size) =>
        WindowPaddedWith(TRUE)

\* C15, amended: the first window_size - n tuples equal the feature tuple
\* of the latest supplied sample (imu_data[-1]); the rest is as claimed.
C15_PadsWithLatest ==
    (op = "prepare_windows" /\ Len(imu) < window_size) =>
        WindowPaddedWith(FALSE)

\* a window of two samples with different feature tuples, padded with the
\* second one's
C15_Witness ==
    /\ op = "prepare_windows"
    /\ Len(imu) = MaxShort
    /\ FeatureTuple(imu[1]) # FeatureTuple(imu[Len(imu)])
    /\ result.windows[1] = FeatureTuple(imu[Len(imu)])
    /\ result.windows[window_size] = FeatureTuple(imu[Len(imu)])
    /\ result.windows[window_size - Len(imu) + 1] = FeatureTuple(imu[1])

\* C16: inference never changes the state the service and its models hold:
\* after any sequence of calls the scalers' fitted statistics and the
\* anomaly model's fitted state are what they were after construction.
C16_ParametersUnchanged ==
    /\ anomaly_model = Unfitted
    /\ lstm_scaler = Unfitted
    /\ cnn_scaler = Unfitted

\* what the inference of a finished request read is nothing, or the state
\* fitted on the request's own data
ReadOwnData(q) ==
    IF q.kind = "predict_activity"
    THEN \/ q.read.cnn_scaler = NotRead
         \/ q.read.cnn_scaler = FittedOn(prepare_windows(q.input))
    ELSE /\ \/ q.read.anomaly_model = NotRead
            \/ q.read.anomaly_model = FittedOn(q.input)
         /\ \/ q.read.lstm_scaler = NotRead
            \/ q.read.lstm_scaler = FittedOn(q.input)

\* the call run last returned what it returns when it runs alone
ResultAsAlone ==
    /\ (op = "predict_activity") =>
          \E o \in predict_activity(imu) : o.result = result /\ o.log = log
    /\ (op = "predict_health") =>
          \E o \in predict_health(vitals) :
              o.result = result /\ o.flags = flags /\ o.log = log

\* C17: concurrent predict_health and predict_activity calls on one shared
\* service are safe: in every interleaving each call returns what it
\* returns alone on its input, and no call's inference reads scaler or
\* anomaly-model state written by another request in flight.
C17_ConcurrentCallsIsolated ==
    /\ ResultAsAlone
    /\ \A r \in Requests :
          (requests[r].pc = "done") => ReadOwnData(requests[r])

\* two activity requests in flight with different windows, each scaled with
\* the statistics of its own window
C17_Witness ==
    /\ requests["r1"].pc = "done"
    /\ requests["r2"].pc = "done"
    /\ requests["r1"].kind = "predict_activity"
    /\ requests["r2"].kind = "predict_activity"
    /\ prepare_windows(requests["r1"].input) # prepare_windows(requests["r2"].input)
    /\ requests["r1"].read.cnn_scaler.fit = "call"
    /\ requests["r2"].read.cnn_scaler.fit = "call"

\* C18: the anomaly detector returns exactly one flag per row whenever one
\* of the columns heart_rate, spo2, temperature has a present value in the
\* batch, and returns the empty flag sequence, without raising, exactly
\* when no such column exists.
C18_FlagPerRowIffEligibleColumn ==
    (op = "predict_health" /\ Len(vitals) > 0) =>
        LET eligible == \E f \in AnomalyFeatures : CountVals(vitals, f) > 0
            raised == log = <<"_detect_anomalies!">>
        IN  /\ ~raised
            /\ eligible => Len(flags) = Len(vitals)
            /\ ~eligible => flags = <<>>

C20_StressHeuristic ==
    (op = "_predict_stress_level") =>
        LET hr_mean == Mean(vitals, "heart_rate")
            hr_std == Variance(vitals, "heart_rate")
        IN  result.stress_level =
              IF CountVals(vitals, "heart_rate") = 0 THEN "moderate"
              ELSE IF GT(hr_mean, 90) \/ StdGT(hr_std, 15) THEN "high"
              ELSE IF GT(hr_mean, 75) \/ StdGT(hr_std, 10) THEN "moderate"
              ELSE "low"

\* the label the claim gives the history of the call: high for a mean heart
\* rate above 100, moderate for one above 85 and at most 100, low otherwise
\* and low without a heart-rate value
CardiovascularLabel ==
    LET hr_mean == Mean(vitals, "heart_rate")
    IN  IF CountVals(vitals, "heart_rate") = 0 THEN "low"
        ELSE IF GT(hr_mean, 100) THEN "high"
        ELSE IF GT(hr_mean, 85) /\ ~GT(hr_mean, 100) THEN "moderate"
        ELSE "low"

\* C21: cardiovascular_risk is high if mean HR > 100, moderate if 85 < mean
\* HR <= 100, low otherwise and low when there is no heart-rate data; the
\* label in the prediction record is one of low, moderate, high.
C21_CardiovascularRisk ==
    /\ (op = "_predict_cardiovascular_risk") =>
          result.cardiovascular_risk = CardiovascularLabel
    /\ (op = "predict_health" /\ ~IsRaised(result)) =>
          /\ result.predictions.cardiovascular_risk \in {"low", "moderate", "high"}
          /\ (Len(vitals) > 0) =>
                result.predictions.cardiovascular_risk = CardiovascularLabel

\* a mean heart rate of exactly 100, labelled moderate
C21_Witness ==
    /\ op = "_predict_cardiovascular_risk"
    /\ CountVals(vitals, "heart_rate") > 0
    /\ ~GT(Mean(vitals, "heart_rate"), 100)
    /\ ~LT(Mean(vitals, "heart_rate"), 100)
    /\ result.cardiovascular_risk = "moderate"

\* C22: metabolic_rate is high iff mean HR > 85, mean temperature > 37.0
\* and total steps > 8000, low iff mean HR < 60, mean temperature < 36.5 and
\* total steps < 3000, and normal otherwise; absent step data counts as a
\* total of 0 steps, so that a label is returned and nothing raises.
C22_MetabolicRate ==
    (op = "_determine_metabolic_rate") =>
        LET known == args.avg_hr.k = "val" /\ args.avg_temp.k = "val"
            steps == IF args.total_steps.k = "val" THEN args.total_steps.v ELSE 0
            high == known /\ args.avg_hr.v > 85 /\ args.avg_temp.v > 370
                          /\ steps > 8000
            low == known /\ args.avg_hr.v < 60 /\ args.avg_temp.v < 365
                         /\ steps < 3000
        IN  /\ ~IsRaised(result)
            /\ result.metabolic_rate =
                  IF high THEN "high" ELSE IF low THEN "low" ELSE "normal"

\* C23: constructing CNNActivityModel or LSTMStressModel always ends with a
\* model and a scaler, none of them None: the loaded ones when both files
\* are there and load, freshly initialized ones in every other case (no
\* file, one file, a load that raises); predict's model-is-None branch is
\* then out of reach.
C23_ConstructionLeavesUsableModel ==
    (op = "__init__") =>
        /\ result.model # "None"
        /\ result.scaler # "None"
        /\ IF args.model_file = "ok" /\ args.scaler_file = "ok"
           THEN result = [model |-> "loaded", scaler |-> "loaded"]
           ELSE result = [model |-> "fresh", scaler |-> "fresh"]

\* the model file loads and the scaler file does not: both are made afresh
C23_Witness ==
    /\ op = "__init__"
    /\ args.model_file = "ok"
    /\ args.scaler_file = "corrupt"
    /\ result = [model |-> "fresh", scaler |-> "fresh"]

\* the requests whose predict_health call returned a record
Scored ==
    {r \in Requests : /\ requests[r].pc = "done"
                      /\ requests[r].kind = "predict_health"
                      /\ requests[r].response.risk_score >= 0}

HealthStepOrder ==
    <<"_detect_anomalies", "_calculate_risk_score", "_predict_sleep_quality",
      "_predict_stress_level_lstm", "_predict_cardiovascular_risk",
      "_generate_recommendations">>

IsHealthStep(e) == e \in Range(HealthStepOrder)

\* the steps a call ran to completion or entered, in the order it ran them
StepsRun(lg) == SelectSeq(lg, IsHealthStep)

\* how often step e was run
TimesRun(lg, e) == Cardinality({i \in 1..Len(lg) : lg[i] = e})

\* where step e was run, for a step run exactly once
IndexOf(lg, e) == CHOOSE i \in 1..Len(lg) : lg[i] = e

SequenceDefaults == <<70, 98, 365, 0, 0>>

SequenceFields == <<"heart_rate", "spo2", "temperature", "accel_x", "accel_y">>

\* C26: the stress window has no missing entries: prepare_sequences returns
\* sequence_length 5-tuples of numbers, a field that is missing in its
\* source point (key absent, or present with None) is replaced by its
\* default 70.0, 98.0, 36.5, 0.0, 0.0, and no None enters the means of the
\* padding sample.
C26_WindowHasNoMissingEntries ==
    (op = "prepare_sequences") =>
        /\ ~IsRaised(result)
        /\ Len(result.sequences) = sequence_length
        /\ \A i \in 1..sequence_length : \A j \in 1..5 :
              result.sequences[i][j].k = "val"
        /\ \A i \in 1..Len(vitals) : \A j \in 1..5 :
              (i > Len(vitals) - sequence_length
                 /\ vitals[i][SequenceFields[j]].k # "val")
              => result.sequences[sequence_length - Len(vitals) + i][j]
                     = Entry(SequenceDefaults[j])

\* a history of one sample with a heart rate
SingleHeartRate(h) == Len(h) = 1 /\ h[1].heart_rate.k = "val"

\* the mean motion magnitude is at most 0.5 (the default 0.1 without an
\* accel_x column)
MotionAtMostHalf(d) ==
    /\ Len(d) > 0
    /\ \/ ~HasColumn(d, "accel_x")
       \/ /\ ~MovementKeyError(d)
          /\ Movement(d).den > 0
          /\ Movement(d).num <= 50 * Movement(d).den

\* C27: with fewer than two heart-rate values the heart-rate standard
\* deviation the heuristics use is 0.0: a single-sample history yields
\* sleep_quality 90, a single vitals sample with heart rate below 65 and
\* motion at most 0.5 is classified deep sleep, and a single sample with
\* heart rate at most 75 has stress level low.
C27_SingleSampleStdIsZero ==
    /\ (op = "predict_health" /\ SingleHeartRate(vitals) /\ ~IsRaised(result))
          => result.predictions.sleep_quality = 90
    /\ (/\ op = "predict_sleep_stages"
        /\ SingleHeartRate(vitals)
        /\ vitals[1].heart_rate.v < 65
        /\ MotionAtMostHalf(imu)
        /\ ~IsRaised(result))
          => result.dominant_stage = "deep"
    /\ (/\ op = "_predict_stress_level"
        /\ SingleHeartRate(vitals)
        /\ vitals[1].heart_rate.v <= 75)
          => result.stress_level = "low"

\* the registry has websocket w under user u
Registered(w, u) == w \in ConnectionsOf(active_connections, u)

\* C28: the registry of the ConnectionManager is consistent after every
\* sequence of connect, disconnect and broadcast_to_user operations: no
\* user id maps to an empty set, and a websocket is in a user's set exactly
\* when it was connected for that user and has not since been disconnected
\* or failed a send during a broadcast.
C28_RegistryConsistent ==
    (broadcast.pc = "idle") =>
        /\ \A u \in DOMAIN active_connections : active_connections[u] # {}
        /\ \A w \in Sockets : \A u \in Users :
              Registered(w, u) <=> /\ sockets[w].user = u
                                   /\ sockets[w].st = "open"
                                   /\ ~sockets[w].failed

\* C29: broadcast_to_user is safe under interleaving with connect and
\* disconnect for the same user: the broadcast does not raise, the user's
\* connection set is not modified while it is iterated, and a broadcast
\* that has returned has sent the message once to every connection that
\* stayed registered throughout.
C29_BroadcastSafeUnderInterleaving ==
    /\ broadcast.pc # "raised"
    /\ ~broadcast.modified
    /\ (broadcast.pc = "done") =>
          broadcast.stayed \subseteq (broadcast.sent \cup broadcast.disconnected)

\* C30: get_health_ratings creates a HealthRating row for a user only when
\* the user has none: in every interleaving of concurrent requests the
\* endpoint inserts at most one row per user, and a request that arrives
\* when a row exists answers a stored rating of the user (the latest one
\* its query found) and writes nothing.
C30_OneRatingRowPerUser ==
    /\ \A u \in Users : Cardinality(RatingsOf(health_ratings, u)) <= 1
    /\ \A q \in RatingRequests :
          rating_requests[q].existed =>
              /\ rating_requests[q].pc \in {"select", "done"}
              /\ (rating_requests[q].pc = "done") =>
                    rating_requests[q].response
                       \in RatingsOf(health_ratings, rating_requests[q].user)

====
